---- MODULE Spec2Model ----
(***************************************************************************)
(* Model of the multibridge connection lifecycle manager:                  *)
(*   src/utils/lruCache.ts        LRUCache (connection cache)              *)
(*   src/utils/rateLimiter.ts     RateLimiter                              *)
(*   src/connections/connectionManager.ts                                  *)
(*        getConnection, closeConnection, closeAllConnections              *)
(*   src/context/tenantContext.ts                                          *)
(*        validateTenantInput, runWithTenant, getTenant                    *)
(*   src/utils/executeQuery.ts    executeWithTimeout, executeQuery         *)
(*   src/connections/connectionManager.ts   generateCacheKey on strings    *)
(*   src/config/dbConfig.ts                                                *)
(*        fetchDBConfig, invalidateConfigCache, clearConfigCache           *)
(* Node runs the code on one thread; every action below is the code that   *)
(* runs between two suspension points (await) of one call.                 *)
(***************************************************************************)
EXTENDS Integers, Sequences, FiniteSets, TLC

(* ---- bounds of the model ---- *)
MaxCalls == 3
NumKeys == 2
MaxTime == 3
MaxKeyChars == 4

(* ---- envConfig values, scaled to the model's clock ---- *)
CONNECTION_CACHE_MAX_SIZE == 2
CONNECTION_CACHE_TTL_MS == 1
CONNECTION_VALIDATION_TTL_MS == 1
CONNECTION_RETRY_ATTEMPTS == 2
CONNECTION_RETRY_DELAY_MS == 1
RATE_LIMIT_MAX_REQUESTS == 2
RATE_LIMIT_WINDOW_MS == 1
POSTGRES_QUERY_TIMEOUT_MS == 1
MONGODB_QUERY_TIMEOUT_MS == 0
MYSQL_QUERY_TIMEOUT_MS == 1
CASSANDRA_QUERY_TIMEOUT_MS == 1
CONFIG_CACHE_TTL_MS == 1

Keys == 1..NumKeys
Calls == 1..MaxCalls

VARIABLES
  now,            \* Date.now()
  cache,          \* LRUCache.cache of connectionCache: Map in insertion order
  maxSize,        \* LRUCache.maxSize
  ttl,            \* LRUCache.ttl (0 = undefined)
  maxAttempts,    \* envConfig.CONNECTION_RETRY_ATTEMPTS as read by _createConnectionWithRetry
  configCache,    \* dbConfig.ts configCache: LRU entries [key, value, lastAccessed]
  pending,        \* pendingConnections: key -> promise (0 = no entry)
  limits,         \* RateLimiter.limits: key -> entry (count 0 = no entry)
  nCalls,         \* number of calls issued so far; call ids are issue order
  calls,          \* each call's position and locals
  est,            \* the connection promises (async IIFE of getConnection), by creating call
  lastValidated,  \* ConnectionData.lastValidated of the record made by establishment p
  closed,         \* handles on which _closeAndLog invoked the driver's close
  closeFailed,    \* handles whose close raised inside _closeAndLog (caught and logged)
  nConnect,       \* per key, number of _createConnection invocations so far
  lruOp           \* outcome of the last direct LRUCache method call (SpecLRU only)

vars == <<now, cache, maxSize, ttl, maxAttempts, configCache, pending, limits, nCalls, calls, est,
          lastValidated, closed, closeFailed, nConnect, lruOp>>

(***************************************************************************)
(* LRUCache                                                                *)
(***************************************************************************)
\* position of key k in the Map, 0 when absent
LruIndex(c, k) ==
  IF \E i \in 1..Len(c) : c[i].key = k
    THEN CHOOSE i \in 1..Len(c) : c[i].key = k
    ELSE 0

LruRemoveAt(c, i) == SubSeq(c, 1, i - 1) \o SubSeq(c, i + 1, Len(c))

\* this.ttl && Date.now() - entry.lastAccessed > this.ttl
LruExpiredNever(e, t, life) == FALSE
LruExpired(e, t, life) == life # 0 /\ t - e.lastAccessed > life

\* value returned by get(key); 0 is undefined
LruGetValue(c, k, t, life) ==
  LET i == LruIndex(c, k) IN
    IF i = 0 THEN 0
    ELSE IF LruExpired(c[i], t, life) THEN 0
    ELSE c[i].value

\* the Map after get(key)
LruGetCache(c, k, t, life) ==
  LET i == LruIndex(c, k) IN
    IF i = 0 THEN c
    ELSE IF LruExpired(c[i], t, life) THEN LruRemoveAt(c, i)
    ELSE [c EXCEPT ![i].lastAccessed = t]

\* the Map after set(key, value)
LruSetCacheNoEvict(c, k, v, t, max) ==
  LET i == LruIndex(c, k) IN
    IF i # 0 THEN [c EXCEPT ![i].value = v, ![i].lastAccessed = t]
    ELSE Append(c, [key |-> k, value |-> v, lastAccessed |-> t])
LruSetCache(c, k, v, t, max) ==
  LET i == LruIndex(c, k) IN
    IF i # 0 THEN [c EXCEPT ![i].value = v, ![i].lastAccessed = t]
    ELSE LET kept == IF Len(c) >= max /\ Len(c) > 0 THEN Tail(c) ELSE c
         IN Append(kept, [key |-> k, value |-> v, lastAccessed |-> t])

\* has(key) and the Map after it
LruHasValue(c, k, t, life) ==
  LET i == LruIndex(c, k) IN i # 0 /\ ~LruExpired(c[i], t, life)
LruHasCache(c, k, t, life) ==
  LET i == LruIndex(c, k) IN
    IF i # 0 /\ LruExpired(c[i], t, life) THEN LruRemoveAt(c, i) ELSE c

LruDeleteNothing(c, k) == c
LruDelete(c, k) ==
  LET i == LruIndex(c, k) IN IF i = 0 THEN c ELSE LruRemoveAt(c, i)

LruClear == <<>>

(***************************************************************************)
(* RateLimiter                                                             *)
(***************************************************************************)
NoLimit == [count |-> 0, resetTime |-> 0]

\* !entry || now > entry.resetTime
RateNewWindow(lim, k, t) == lim[k].count = 0 \/ t > lim[k].resetTime

\* result of check(key)
RateCheckOkOffByOne(lim, k, t) ==
  RateNewWindow(lim, k, t) \/ ~(lim[k].count > RATE_LIMIT_MAX_REQUESTS)
RateCheckOk(lim, k, t) ==
  RateNewWindow(lim, k, t) \/ ~(lim[k].count >= RATE_LIMIT_MAX_REQUESTS)

\* limits after check(key)
RateCheckLimitsCountAll(lim, k, t) ==
  IF RateNewWindow(lim, k, t)
    THEN [lim EXCEPT ![k] = [count |-> 1, resetTime |-> t + RATE_LIMIT_WINDOW_MS]]
  ELSE [lim EXCEPT ![k].count = @ + 1]
RateCheckLimits(lim, k, t) ==
  IF RateNewWindow(lim, k, t)
    THEN [lim EXCEPT ![k] = [count |-> 1, resetTime |-> t + RATE_LIMIT_WINDOW_MS]]
  ELSE IF ~RateCheckOk(lim, k, t) THEN lim
  ELSE [lim EXCEPT ![k].count = @ + 1]

RateReset(lim, k) == [lim EXCEPT ![k] = NoLimit]
RateClear == [k \in Keys |-> NoLimit]

(***************************************************************************)
(* connectionManager                                                       *)
(***************************************************************************)
NoCall == [op |-> "none", key |-> 0, pc |-> "idle", held |-> 0, prom |-> 0,
           ret |-> 0, err |-> "", saw |-> 0, todo |-> <<>>, snap |-> {},
           ctx |-> 0, arg |-> <<>>, lazy |-> FALSE, store |-> <<>>, scope |-> "",
           msg |-> <<>>, thrown |-> "", read |-> FALSE, seen |-> <<>>,
           qphase |-> "", qshape |-> "", execs |-> 0, backend |-> "none",
           timer |-> "none", fireAt |-> 0, cause |-> "", parent |-> 0,
           queried |-> FALSE, answer |-> "", storedAt |-> 0, stats |-> <<>>]
NoEst == [state |-> "none", key |-> 0, attempt |-> 0, due |-> 0, err |-> "",
          clean |-> FALSE, base |-> 0]

Unsettled == {"config", "connecting", "backoff"}
InFlight(p) == est[p].state \in Unsettled

\* pendingConnections.get(cacheKey)
PendingGetMiss(pend, k) == 0
PendingGet(pend, k) == pend[k]

\* pendingConnections.delete(cacheKey) in the finally block
PendingKeep(pend, k) == pend
PendingDelete(pend, k) == [pend EXCEPT ![k] = 0]

PendingClear == [k \in Keys |-> 0]

\* needsValidation(cached)
NeedsValidationNever(lv, t) == FALSE
NeedsValidation(lv, t) ==
  IF lv = 0 THEN TRUE
  ELSE IF CONNECTION_VALIDATION_TTL_MS <= 0 THEN FALSE
  ELSE t - lv > CONNECTION_VALIDATION_TTL_MS

\* the failures _createConnection can end with: a driver's network error, a
\* driver's other error, and the three ConnectionErrors it throws itself
DriverErrors == {"Transient", "Fatal"}
DescriptorErrors == {"NoSchema", "NoDataCenter", "Unsupported"}

\* error.message.toLowerCase(), cut into fragments at the places where a
\* retryable pattern occurs in it
ErrorMessage(e) ==
  CASE e = "Transient" -> <<"connect ", "econnrefused", " 10.0.0.1:5432">>
    [] e = "Fatal" -> <<"password authentication failed for user">>
    [] e = "NoSchema" -> <<"database schema is required for ", "connection",
                           " type 'postgres' but was not found.">>
    [] e = "NoDataCenter" -> <<"'data_center' is required for cassandra ",
                               "connection", "s.">>
    [] e = "Unsupported" -> <<"unsupported database type: oracle">>
    [] OTHER -> <<>>

retryablePatterns == {"econnrefused", "etimedout", "timeout", "econnreset",
                      "enotfound", "temporary", "retry", "connection"}

\* isRetryableError(error): some pattern is included in the message
IsRetryableError(e) ==
  \E i \in 1..Len(ErrorMessage(e)) : ErrorMessage(e)[i] \in retryablePatterns

\* baseDelay * Math.pow(2, attempt - 1)
RetryDelayConstant(attempt) == CONNECTION_RETRY_DELAY_MS
RetryDelay(attempt) == CONNECTION_RETRY_DELAY_MS * (2 ^ (attempt - 1))

\* callers whose returned promise is the connection promise p
Joiners(p) == {c \in Calls : calls[c].pc = "join" /\ calls[c].prom = p}

\* no other call is suspended on key k and no closeAllConnections is in progress
Quiescent(k) ==
  \A c \in Calls :
    calls[c].pc \in {"idle", "done"}
    \/ (calls[c].op # "closeAll" /\ calls[c].key # k)

\* the async IIFE starts: it runs up to `await fetchDBConfig`, then
\* pendingConnections.set(cacheKey, connectionPromise)
StartEstablishment(c, k, isClean) ==
  /\ est' = [est EXCEPT ![c] = [state |-> "config", key |-> k, attempt |-> 0,
                                due |-> 0, err |-> "", clean |-> isClean,
                                base |-> nConnect[k]]]
  /\ pending' = [pending EXCEPT ![k] = c]

\* tenant identities are interchangeable: a call uses a key already used or
\* the next unused one
UsedKeys == {calls[c].key : c \in Calls} \ {0}
NextKeys == {k \in Keys : \A j \in 1..(k - 1) : j \in UsedKeys}

(* ---- tenant identities (context/tenantContext.ts) ---- *)
MAX_ID_LENGTH == 255
MIN_ID_LENGTH == 1

\* values an identity field can hold: type, string length, whether every
\* character matches VALID_ID_PATTERN, and which text it is
Undefined == [type |-> "undefined", len |-> 0, clean |-> TRUE, text |-> 0]
NumberValue == [type |-> "number", len |-> 0, clean |-> TRUE, text |-> 0]
Str(n, ok, id) == [type |-> "string", len |-> n, clean |-> ok, text |-> id]

FieldValues ==
  {Undefined, NumberValue, Str(0, TRUE, 0), Str(MAX_ID_LENGTH, TRUE, 0),
   Str(MAX_ID_LENGTH + 1, TRUE, 0), Str(7, FALSE, 0)}
    \cup {Str(1, TRUE, k) : k \in Keys}

\* !value
Falsy(v) == v.type = "undefined" \/ (v.type = "string" /\ v.len = 0)

\* the if / else-if chain validateTenantInput applies to one field
FieldError(v) ==
  IF Falsy(v) \/ v.type # "string" THEN "required"
  ELSE IF v.len < MIN_ID_LENGTH \/ v.len > MAX_ID_LENGTH THEN "length"
  ELSE IF ~v.clean THEN "chars"
  ELSE ""

ErrorOf(e) == e.problem # ""

\* validateTenantInput(tenant): the errors array
ValidateFirstOnly(t) ==
  LET all == SelectSeq(<<[field |-> "appid", problem |-> FieldError(t.appid)],
                         [field |-> "orgid", problem |-> FieldError(t.orgid)],
                         [field |-> "appdbname", problem |-> FieldError(t.appdbname)]>>,
                       ErrorOf)
  IN IF all = <<>> THEN <<>> ELSE <<Head(all)>>
ValidateTenantInput(t) ==
  SelectSeq(<<[field |-> "appid", problem |-> FieldError(t.appid)],
              [field |-> "orgid", problem |-> FieldError(t.orgid)],
              [field |-> "appdbname", problem |-> FieldError(t.appdbname)]>>,
            ErrorOf)

\* the identity whose cache key is k
Tenant(k) == [appid |-> Str(1, TRUE, 1), orgid |-> Str(1, TRUE, 1),
              appdbname |-> Str(1, TRUE, k)]

\* the module-level singletons after construction, with cache TTL `life`
\* (envConfig.CONNECTION_CACHE_TTL_MS || undefined); the tenants the keys
\* stand for are well-formed identities
InitState(life, attempts) ==
  /\ \A k \in Keys : ValidateTenantInput(Tenant(k)) = <<>>
  /\ now = 1
  /\ cache = <<>>
  /\ maxSize = CONNECTION_CACHE_MAX_SIZE
  /\ ttl = life
  /\ maxAttempts = attempts
  /\ configCache = <<>>
  /\ pending = PendingClear
  /\ limits = RateClear
  /\ nCalls = 0
  /\ calls = [c \in Calls |-> NoCall]
  /\ est = [c \in Calls |-> NoEst]
  /\ lastValidated = [c \in Calls |-> 0]
  /\ closed = {}
  /\ closeFailed = {}
  /\ nConnect = [k \in Keys |-> 0]
  /\ lruOp = "none"

\* default configuration: CONNECTION_CACHE_TTL_MS = 0, no cache TTL
Init == InitState(0, CONNECTION_RETRY_ATTEMPTS)

\* cache TTL disabled or configured
InitTTL ==
  \E life \in {0, CONNECTION_CACHE_TTL_MS} : InitState(life, CONNECTION_RETRY_ATTEMPTS)

Tick ==
  /\ now < MaxTime
  /\ now' = now + 1
  /\ UNCHANGED <<cache, maxSize, ttl, maxAttempts, configCache, pending, limits, nCalls, calls, est,
                 lastValidated, closed, closeFailed, nConnect, lruOp>>

\* getConnection for cache key k up to its first await or return; `me` holds
\* the caller's locals, `cs` the call records as the caller leaves them
GetConnectionIn(k, me, cs) ==
  /\ nCalls < MaxCalls
  /\ LET c == nCalls + 1
         ok == RateCheckOk(limits, k, now)
         slot == PendingGet(pending, k)
         v == LruGetValue(cache, k, now, ttl)
     IN
     /\ nCalls' = c
     /\ limits' = RateCheckLimits(limits, k, now)
     /\ IF ~ok THEN
          /\ calls' = [cs EXCEPT ![c] = [me EXCEPT !.pc = "done", !.err = "RateLimited"]]
          /\ UNCHANGED <<cache, pending, est>>
        ELSE IF slot # 0 THEN
          /\ calls' = [cs EXCEPT ![c] = [me EXCEPT !.pc = "join", !.prom = slot,
                                                      !.saw = pending[k]]]
          /\ UNCHANGED <<cache, pending, est>>
        ELSE
          /\ cache' = LruGetCache(cache, k, now, ttl)
          /\ IF v # 0 /\ ~NeedsValidation(lastValidated[v], now) THEN
               /\ calls' = [cs EXCEPT ![c] = [me EXCEPT !.pc = "done", !.ret = v,
                                                           !.saw = pending[k]]]
               /\ UNCHANGED <<pending, est>>
             ELSE IF v # 0 THEN
               /\ calls' = [cs EXCEPT ![c] = [me EXCEPT !.pc = "probe", !.held = v,
                                                           !.saw = pending[k]]]
               /\ UNCHANGED <<pending, est>>
             ELSE
               /\ calls' = [cs EXCEPT ![c] = [me EXCEPT !.pc = "join", !.prom = c,
                                                           !.saw = pending[k]]]
               /\ StartEstablishment(c, k, Quiescent(k) /\ LruIndex(cache, k) = 0
                                            /\ pending[k] = 0)
  /\ UNCHANGED <<now, maxSize, ttl, maxAttempts, configCache, lastValidated, closed, closeFailed, nConnect, lruOp>>

GetConnectionAs(k, me) == GetConnectionIn(k, me, calls)

\* getConnection(tenant) with an explicit identity whose cache key is k
GetConnection(k) == GetConnectionAs(k, [NoCall EXCEPT !.op = "get", !.key = k])

\* getConnection resumes from `await isConnectionValid(cached, cacheKey)`
ProbeDone(c, valid) ==
  /\ calls[c].pc = "probe"
  /\ LET k == calls[c].key
         h == calls[c].held
     IN IF valid THEN
          /\ lastValidated' = [lastValidated EXCEPT ![h] = now]
          /\ cache' = LruSetCache(cache, k, h, now, maxSize)
          /\ calls' = [calls EXCEPT ![c].pc = "done", ![c].ret = h]
          /\ UNCHANGED closed
        ELSE
          /\ closed' = closed \cup {h}
          /\ calls' = [calls EXCEPT ![c].pc = "closing"]
          /\ UNCHANGED <<lastValidated, cache>>
  /\ UNCHANGED <<now, maxSize, ttl, maxAttempts, configCache, pending, limits, nCalls, est, closeFailed,
                 nConnect, lruOp>>

\* _closeAndLog resumes from the driver's close: an error is caught and logged
CloseOutcome(h, raised) ==
  closeFailed' = IF raised THEN closeFailed \cup {h} ELSE closeFailed

\* getConnection resumes from `await _closeAndLog(...)` on the stale path
StaleCloseDone(c, raised) ==
  /\ calls[c].pc = "closing"
  /\ CloseOutcome(calls[c].held, raised)
  /\ LET k == calls[c].key IN
       /\ cache' = LruDelete(cache, k)
       /\ calls' = [calls EXCEPT ![c].pc = "join", ![c].prom = c]
       /\ StartEstablishment(c, k, FALSE)
  /\ UNCHANGED <<now, maxSize, ttl, maxAttempts, configCache, limits, nCalls, lastValidated, closed,
                 nConnect, lruOp>>

\* the promise p rejects: finally block, then every joiner gets the error
Reject(p, e) ==
  /\ est' = [est EXCEPT ![p].state = "failed", ![p].err = e]
  /\ pending' = PendingDelete(pending, est[p].key)
  /\ calls' = [c \in Calls |->
                 IF c \in Joiners(p)
                   THEN [calls[c] EXCEPT !.pc = "done", !.err = e]
                   ELSE calls[c]]

\* the IIFE resumes from `await fetchDBConfig(appid, orgid)`
ConfigDone(p, outcome) ==
  /\ est[p].state = "config"
  /\ IF outcome = "found" THEN
       /\ est' = [est EXCEPT ![p].state = "connecting", ![p].attempt = 1]
       /\ nConnect' = [nConnect EXCEPT ![est[p].key] = @ + 1]
       /\ UNCHANGED <<pending, calls>>
     ELSE
       /\ Reject(p, IF outcome = "notfound" THEN "NoConfig" ELSE "StoreError")
       /\ UNCHANGED nConnect
  /\ UNCHANGED <<now, cache, maxSize, ttl, maxAttempts, configCache, limits, nCalls, lastValidated, closed, closeFailed, lruOp>>

\* _createConnectionWithRetry resumes from `await _createConnection(...)`
ConnectDone(p, outcome) ==
  /\ est[p].state = "connecting"
  /\ LET k == est[p].key IN
     IF outcome = "ok" THEN
       /\ lastValidated' = [lastValidated EXCEPT ![p] = now]
       /\ cache' = LruSetCache(cache, k, p, now, maxSize)
       /\ pending' = PendingDelete(pending, k)
       /\ est' = [est EXCEPT ![p].state = "ok"]
       /\ calls' = [c \in Calls |->
                      IF c \in Joiners(p)
                        THEN [calls[c] EXCEPT !.pc = "done", !.ret = p]
                        ELSE calls[c]]
     ELSE IF ~IsRetryableError(outcome) \/ est[p].attempt >= maxAttempts THEN
       /\ Reject(p, outcome)
       /\ UNCHANGED <<lastValidated, cache>>
     ELSE
       /\ est' = [est EXCEPT ![p].state = "backoff", ![p].err = outcome,
                             ![p].due = now + RetryDelay(est[p].attempt)]
       /\ UNCHANGED <<lastValidated, cache, pending, calls>>
  /\ UNCHANGED <<now, maxSize, ttl, maxAttempts, configCache, limits, nCalls, closed, closeFailed, nConnect, lruOp>>

\* the setTimeout of the backoff fires and _createConnection is invoked again
BackoffDone(p) ==
  /\ est[p].state = "backoff"
  /\ now >= est[p].due
  /\ est' = [est EXCEPT ![p].state = "connecting", ![p].attempt = @ + 1, ![p].due = 0]
  /\ nConnect' = [nConnect EXCEPT ![est[p].key] = @ + 1]
  /\ UNCHANGED <<now, cache, maxSize, ttl, maxAttempts, configCache, pending, limits, nCalls, calls,
                 lastValidated, closed, closeFailed, lruOp>>

\* closeConnection(tenant) up to `await _closeAndLog(...)`
CloseConnection(k) ==
  /\ nCalls < MaxCalls
  /\ LET c == nCalls + 1
         me == [NoCall EXCEPT !.op = "close", !.key = k]
         v == LruGetValue(cache, k, now, ttl)
     IN
     /\ nCalls' = c
     /\ cache' = LruGetCache(cache, k, now, ttl)
     /\ IF v # 0 THEN
          /\ closed' = closed \cup {v}
          /\ calls' = [calls EXCEPT ![c] = [me EXCEPT !.pc = "ccWait", !.held = v]]
        ELSE
          /\ calls' = [calls EXCEPT ![c] = [me EXCEPT !.pc = "done"]]
          /\ UNCHANGED closed
  /\ UNCHANGED <<now, maxSize, ttl, maxAttempts, configCache, pending, limits, est, lastValidated,
                 closeFailed, nConnect, lruOp>>

\* closeConnection resumes from `await _closeAndLog(...)`
CloseConnectionDone(c, raised) ==
  /\ calls[c].pc = "ccWait"
  /\ CloseOutcome(calls[c].held, raised)
  /\ cache' = LruDelete(cache, calls[c].key)
  /\ limits' = RateReset(limits, calls[c].key)
  /\ calls' = [calls EXCEPT ![c].pc = "done"]
  /\ UNCHANGED <<now, maxSize, ttl, maxAttempts, configCache, pending, nCalls, est, lastValidated, closed,
                 nConnect, lruOp>>

\* connectionCache.get over the snapshot of keys: the values collected
RECURSIVE LiveValues(_, _, _)
LiveValues(c, t, life) ==
  IF c = <<>> THEN <<>>
  ELSE IF LruExpired(Head(c), t, life) THEN LiveValues(Tail(c), t, life)
  ELSE <<Head(c).value>> \o LiveValues(Tail(c), t, life)

\* and the Map after those gets
RECURSIVE TouchAll(_, _, _)
TouchAll(c, t, life) ==
  IF c = <<>> THEN <<>>
  ELSE IF LruExpired(Head(c), t, life) THEN TouchAll(Tail(c), t, life)
  ELSE <<[Head(c) EXCEPT !.lastAccessed = t]>> \o TouchAll(Tail(c), t, life)

\* connectionCache.clear(); pendingConnections.clear(); rateLimiter.clear()
ClearAllButPending ==
  /\ cache' = LruClear
  /\ pending' = pending
  /\ limits' = RateClear

ClearAll ==
  /\ cache' = LruClear
  /\ pending' = PendingClear
  /\ limits' = RateClear

\* closeAllConnections() up to the first `await _closeAndLog(...)`
CloseAllConnections ==
  /\ nCalls < MaxCalls
  /\ LET c == nCalls + 1
         me == [NoCall EXCEPT !.op = "closeAll"]
         entries == LiveValues(cache, now, ttl)
     IN
     /\ nCalls' = c
     /\ IF entries = <<>> THEN
          /\ ClearAll
          /\ calls' = [calls EXCEPT ![c] = [me EXCEPT !.pc = "done"]]
          /\ UNCHANGED closed
        ELSE
          /\ cache' = TouchAll(cache, now, ttl)
          /\ closed' = closed \cup {Head(entries)}
          /\ calls' = [calls EXCEPT ![c] = [me EXCEPT !.pc = "caWait", !.held = Head(entries),
                                                      !.todo = Tail(entries),
                                                      !.snap = {entries[i] : i \in 1..Len(entries)}]]
          /\ UNCHANGED <<pending, limits>>
  /\ UNCHANGED <<now, maxSize, ttl, maxAttempts, configCache, est, lastValidated, closeFailed, nConnect, lruOp>>

\* closeAllConnections resumes from one `await _closeAndLog(...)`
CloseAllStep(c, raised) ==
  /\ calls[c].pc = "caWait"
  /\ CloseOutcome(calls[c].held, raised)
  /\ IF calls[c].todo = <<>> THEN
       /\ ClearAll
       /\ calls' = [calls EXCEPT ![c].pc = "done"]
       /\ UNCHANGED closed
     ELSE
       /\ closed' = closed \cup {Head(calls[c].todo)}
       /\ calls' = [calls EXCEPT ![c].held = Head(calls[c].todo), ![c].todo = Tail(@)]
       /\ UNCHANGED <<cache, pending, limits>>
  /\ UNCHANGED <<now, maxSize, ttl, maxAttempts, configCache, nCalls, est, lastValidated, nConnect, lruOp>>

DoGetConnection == \E k \in NextKeys : GetConnection(k)
DoProbeDone == \E c \in Calls, valid \in BOOLEAN : ProbeDone(c, valid)
DoStaleCloseDone == \E c \in Calls, raised \in BOOLEAN : StaleCloseDone(c, raised)
DoConfigDone == \E p \in Calls, o \in {"found", "notfound", "error"} : ConfigDone(p, o)
DoConfigLookup == \E p \in Calls, o \in {"found", "notfound"} : ConfigDone(p, o)
DoConnectDone == \E p \in Calls, o \in {"ok"} \cup DriverErrors : ConnectDone(p, o)
DoBackoffDone == \E p \in Calls : BackoffDone(p)
DoCloseConnection == \E k \in NextKeys : CloseConnection(k)
DoCloseConnectionDone == \E c \in Calls, raised \in BOOLEAN : CloseConnectionDone(c, raised)
DoCloseAllStep == \E c \in Calls, raised \in BOOLEAN : CloseAllStep(c, raised)

Next ==
  \/ Tick
  \/ DoGetConnection
  \/ DoProbeDone
  \/ DoStaleCloseDone
  \/ DoConfigLookup
  \/ DoConnectDone
  \/ DoBackoffDone
  \/ DoCloseConnection
  \/ DoCloseConnectionDone
  \/ CloseAllConnections
  \/ DoCloseAllStep

Spec == Init /\ [][Next]_vars

(***************************************************************************)
(* LRUCache driven directly: set / get / has / delete / clear              *)
(***************************************************************************)
LruKeySet == 1..(NumKeys + 1)
LruValues == {1, 2}

LruUnchanged == UNCHANGED <<now, maxSize, ttl, maxAttempts, configCache, pending, limits, nCalls, calls, est,
                            lastValidated, closed, closeFailed, nConnect>>

LruSet(k, v) ==
  /\ cache' = LruSetCache(cache, k, v, now, maxSize)
  /\ lruOp' = IF \E i \in 1..Len(cache) : LruIndex(cache', cache[i].key) = 0
               THEN "evict" ELSE "set"
  /\ LruUnchanged

LruGet(k) ==
  /\ cache' = LruGetCache(cache, k, now, ttl)
  /\ lruOp' = IF LruGetValue(cache, k, now, ttl) = 0 THEN "miss" ELSE "hit"
  /\ LruUnchanged

LruHas(k) ==
  /\ cache' = LruHasCache(cache, k, now, ttl)
  /\ lruOp' = IF LruHasValue(cache, k, now, ttl) THEN "has" ELSE "hasnot"
  /\ LruUnchanged

LruDel(k) ==
  /\ cache' = LruDelete(cache, k)
  /\ lruOp' = "delete"
  /\ LruUnchanged

LruClearAll ==
  /\ cache' = LruClear
  /\ lruOp' = "clear"
  /\ LruUnchanged

DoLruSet == \E k \in LruKeySet, v \in LruValues : LruSet(k, v)
DoLruGet == \E k \in LruKeySet : LruGet(k)
DoLruHas == \E k \in LruKeySet : LruHas(k)
DoLruDel == \E k \in LruKeySet : LruDel(k)

NextLRU ==
  \/ Tick
  \/ DoLruSet
  \/ DoLruGet
  \/ DoLruHas
  \/ DoLruDel
  \/ LruClearAll

SpecLRU == InitTTL /\ [][NextLRU]_vars

(***************************************************************************)
(* getConnection traffic only, with the cache TTL disabled or configured   *)
(***************************************************************************)
NextGet ==
  \/ Tick
  \/ DoGetConnection
  \/ DoProbeDone
  \/ DoStaleCloseDone
  \/ DoConfigDone
  \/ DoConnectDone
  \/ DoBackoffDone

SpecTTL == InitTTL /\ [][NextGet]_vars

(***************************************************************************)
(* Establishment with retries: any configured number of attempts, every    *)
(* failure of _createConnection, and time enough for two backoff delays    *)
(***************************************************************************)
MaxRetryAttempts == CONNECTION_RETRY_ATTEMPTS + 1
MaxRetryTime == MaxTime + 1

InitRetry == \E n \in 1..MaxRetryAttempts : InitState(0, n)

TickRetry ==
  /\ now < MaxRetryTime
  /\ now' = now + 1
  /\ UNCHANGED <<cache, maxSize, ttl, maxAttempts, configCache, pending, limits, nCalls, calls, est,
                 lastValidated, closed, closeFailed, nConnect, lruOp>>

DoConnectAny ==
  \E p \in Calls, o \in {"ok"} \cup DriverErrors \cup DescriptorErrors : ConnectDone(p, o)

\* callers of one identity
GetFirstKey == GetConnection(1)

NextRetry ==
  \/ TickRetry
  \/ GetFirstKey
  \/ DoConfigDone
  \/ DoConnectAny
  \/ DoBackoffDone

SpecRetry == InitRetry /\ [][NextRetry]_vars

(***************************************************************************)
(* tenantContext: validateTenantInput, runWithTenant, getTenant            *)
(***************************************************************************)
\* generateCacheKey(appid, orgid, appdbname)
GenerateCacheKey(t) == CHOOSE k \in Keys : t = Tenant(k)

\* identities with at least one malformed field, and the well-formed ones
Identities ==
  {t \in [appid : FieldValues, orgid : FieldValues, appdbname : FieldValues] :
     ValidateTenantInput(t) # <<>>}
    \cup {Tenant(k) : k \in Keys}

\* tenantContext.getStore() in the async context of scope ctx (0: outside
\* every runWithTenant scope)
GetTenantShared(ctx) ==
  LET bound == {c \in Calls : calls[c].store # <<>>} IN
    IF bound = {} THEN <<>>
    ELSE calls[CHOOSE c \in bound : \A d \in bound : d <= c].store
GetTenant(ctx) == IF ctx = 0 THEN <<>> ELSE calls[ctx].store

ManagerUnchanged ==
  UNCHANGED <<now, cache, maxSize, ttl, maxAttempts, configCache, pending, limits, est,
              lastValidated, closed, closeFailed, nConnect, lruOp>>

\* runWithTenant(tenant, fn, {lazyConnection: lazy}) called in context ctx,
\* up to its first await or return
RunWithTenant(t, lazy, ctx) ==
  /\ nCalls < MaxCalls
  /\ LET c == nCalls + 1
         errors == ValidateTenantInput(t)
         me == [NoCall EXCEPT !.op = "run", !.ctx = ctx, !.arg = <<t>>, !.lazy = lazy]
     IN
     IF errors # <<>> THEN
       /\ nCalls' = c
       /\ calls' = [calls EXCEPT ![c] = [me EXCEPT !.pc = "done", !.scope = "invalid",
                                                   !.err = "ValidationError",
                                                   !.thrown = "ValidationError",
                                                   !.msg = errors]]
       /\ ManagerUnchanged
     ELSE IF lazy THEN
       /\ nCalls' = c
       /\ calls' = [calls EXCEPT ![c] = [me EXCEPT !.pc = "done", !.store = <<t>>,
                                                   !.scope = "running"]]
       /\ ManagerUnchanged
     ELSE
       GetConnectionAs(GenerateCacheKey(t),
                       [me EXCEPT !.op = "get", !.key = GenerateCacheKey(t),
                                  !.store = <<t>>, !.scope = "acquiring"])

\* runWithTenant resumes from `await getConnection(tenant)`
ScopeAlwaysRunning(e) == "running"
ScopeAfterAcquire(e) == IF e = "" THEN "running" ELSE "rejected"

RunResume(c) ==
  /\ calls[c].scope = "acquiring"
  /\ calls[c].pc = "done"
  /\ calls' = [calls EXCEPT ![c].scope = ScopeAfterAcquire(calls[c].err),
                            ![c].thrown = calls[c].err]
  /\ UNCHANGED nCalls
  /\ ManagerUnchanged

\* the unit of work of scope c calls getTenant()
UnitGetTenant(c) ==
  /\ calls[c].scope = "running"
  /\ calls' = [calls EXCEPT ![c].read = TRUE, ![c].seen = GetTenant(c)]
  /\ UNCHANGED nCalls
  /\ ManagerUnchanged

\* getConnection() with no argument, called in context ctx by a caller with
\* locals `me`
GetConnectionImplicitIn(ctx, me, cs) ==
  LET cur == GetTenant(ctx) IN
    IF cur = <<>> THEN
      /\ nCalls < MaxCalls
      /\ nCalls' = nCalls + 1
      /\ calls' = [cs EXCEPT ![nCalls + 1] =
                     [me EXCEPT !.op = "get", !.ctx = ctx, !.pc = "done",
                                !.err = "TenantContextError"]]
      /\ ManagerUnchanged
    ELSE
      GetConnectionIn(GenerateCacheKey(cur[1]),
                      [me EXCEPT !.op = "get", !.ctx = ctx,
                                 !.key = GenerateCacheKey(cur[1])], cs)

GetConnectionImplicit(ctx) == GetConnectionImplicitIn(ctx, NoCall, calls)

\* the unit of work of scope c calls getConnection()
UnitGetConnection(c) ==
  /\ calls[c].scope = "running"
  /\ GetConnectionImplicit(c)

\* getConnection() called outside every scope
OutsideGetConnection == GetConnectionImplicit(0)

\* the unit of work settles, its locals are gone; runWithTenant settles the
\* same way
UnitSettle(c, ok) ==
  /\ calls[c].scope = "running"
  /\ calls' = [calls EXCEPT ![c].scope = IF ok THEN "settled" ELSE "failed",
                            ![c].thrown = IF ok THEN "" ELSE "UnitError",
                            ![c].read = FALSE, ![c].seen = <<>>]
  /\ UNCHANGED nCalls
  /\ ManagerUnchanged

\* the contexts code can run in: outside every scope, or in a running unit
Contexts == {0} \cup {c \in Calls : calls[c].scope = "running"}

\* scopes opened so far; one call is left for code outside them
MaxScopes == MaxCalls - 1
Scopes == {c \in Calls : calls[c].arg # <<>>}

DoRunWithTenant ==
  /\ Cardinality(Scopes) < MaxScopes
  /\ \E k \in NextKeys, lazy \in BOOLEAN, ctx \in Contexts :
       RunWithTenant(Tenant(k), lazy, ctx)
DoRunResume == \E c \in Calls : RunResume(c)
DoUnitGetTenant == \E c \in Calls : UnitGetTenant(c)
DoUnitGetConnection == \E c \in Calls : UnitGetConnection(c)
DoUnitSettle == \E c \in Calls, ok \in BOOLEAN : UnitSettle(c, ok)
DoConnectOnce == \E p \in Calls, o \in {"ok", "Fatal"} : ConnectDone(p, o)

NextTenant ==
  \/ DoRunWithTenant
  \/ DoRunResume
  \/ DoUnitGetTenant
  \/ DoUnitGetConnection
  \/ OutsideGetConnection
  \/ DoUnitSettle
  \/ DoConfigLookup
  \/ DoConnectOnce

SpecTenant == Init /\ [][NextTenant]_vars

(***************************************************************************)
(* one runWithTenant call with any identity, among getConnection calls     *)
(***************************************************************************)
RunAnyIdentity ==
  /\ \A c \in Calls : calls[c].arg = <<>>
  /\ \E t \in Identities, lazy \in BOOLEAN : RunWithTenant(t, lazy, 0)

NextValidate ==
  \/ RunAnyIdentity
  \/ GetFirstKey
  \/ DoRunResume
  \/ DoUnitSettle
  \/ DoConfigDone
  \/ DoConnectOnce

SpecValidate == Init /\ [][NextValidate]_vars

(***************************************************************************)
(* executeQuery (utils/executeQuery.ts)                                    *)
(* A call record with qphase # "" is an executeQuery call; the record is   *)
(* also the record of the getConnection() call of its try block.          *)
(***************************************************************************)
\* dbConfig.db_type of the tenant behind cache key k
DbKinds == <<"postgres", "mongodb", "mysql", "cassandra">>
DbTypeOf(k) == DbKinds[((k - 1) % Len(DbKinds)) + 1]

\* the timeout executeQuery reads from envConfig for a backend kind
QueryTimeout(dbType) ==
  CASE dbType = "postgres" -> POSTGRES_QUERY_TIMEOUT_MS
    [] dbType = "mysql" -> MYSQL_QUERY_TIMEOUT_MS
    [] dbType = "mongodb" -> MONGODB_QUERY_TIMEOUT_MS
    [] dbType = "cassandra" -> CASSANDRA_QUERY_TIMEOUT_MS

\* shapes of the `query` argument: a string, an object with a string `query`
\* property, an object with `collection` and `method`, any other object
QueryShapes == {"string", "sql", "mongo", "other"}

\* the shape test of the switch branch of a backend kind
ShapeOk(dbType, shape) ==
  IF dbType = "mongodb" THEN shape = "mongo"
  ELSE shape \in {"string", "sql"}

\* the class of the error getConnection rejects with
ErrorClass(e) ==
  CASE e = "TenantContextError" -> "TenantContextError"
    [] e \in {"RateLimited", "NoConfig"} \cup DescriptorErrors -> "ConnectionError"
    [] OTHER -> "Error"

\* the class of the error a failing backend call rejects with:
\* executeCassandraQuery wraps the driver's error, the others pass it on
BackendErrorClass(dbType) ==
  IF dbType = "cassandra" THEN "QueryError" ELSE "Error"

\* executeWithTimeout arms a timer unless timeoutMs <= 0
TimerArmedAlways(timeoutMs) == TRUE
TimerArmed(timeoutMs) == ~(timeoutMs <= 0)

\* where executeQuery continues after an error in its try block
AfterErrorRetry(e) == IF e = "Error" THEN "connecting" ELSE "catching"
AfterError(e) == "catching"

\* what the catch block throws for a caught error
Rethrown(e) == IF e \in {"QueryError", "TimeoutError"} THEN e ELSE "QueryError"

\* executeQuery(query) called in context ctx, up to `await getConnection()`
ExecuteQuery(ctx, shape) ==
  GetConnectionImplicitIn(ctx, [NoCall EXCEPT !.qphase = "connecting", !.qshape = shape],
                          calls)

\* the catch block of call c is entered with error e and runs up to its
\* `await getConnection()`; `cs` holds the call records at the throw
QueryCatch(c, e, cs) ==
  GetConnectionImplicitIn(calls[c].ctx, [NoCall EXCEPT !.parent = c],
                          [cs EXCEPT ![c].qphase = AfterError(e), ![c].cause = e])

\* executeQuery resumes from `await getConnection()` of the try block: the
\* switch on dbType, the shape test, the backend call, executeWithTimeout
\* up to `await Promise.race(...)`
QueryResume(c) ==
  /\ calls[c].qphase = "connecting"
  /\ calls[c].pc = "done"
  /\ LET dbType == DbTypeOf(calls[c].key) IN
     IF calls[c].err # "" THEN
       QueryCatch(c, ErrorClass(calls[c].err), calls)
     ELSE IF ~ShapeOk(dbType, calls[c].qshape) THEN
       QueryCatch(c, "QueryError", calls)
     ELSE
       /\ calls' = [calls EXCEPT
                      ![c].qphase = "executing",
                      ![c].execs = @ + 1,
                      ![c].backend = "pending",
                      ![c].timer = IF TimerArmed(QueryTimeout(dbType))
                                     THEN "armed" ELSE "none",
                      ![c].fireAt = IF TimerArmed(QueryTimeout(dbType))
                                      THEN now + QueryTimeout(dbType) ELSE 0]
       /\ UNCHANGED nCalls
       /\ ManagerUnchanged

\* the backend call of c settles; if the race is still open executeQuery
\* resumes with its outcome and clears the timer
BackendSettle(c, ok) ==
  /\ calls[c].backend = "pending"
  /\ LET cleared == IF calls[c].timer = "armed" THEN "cleared" ELSE calls[c].timer IN
     IF calls[c].qphase # "executing" THEN
       /\ calls' = [calls EXCEPT ![c].backend = IF ok THEN "ok" ELSE "error"]
       /\ UNCHANGED nCalls
       /\ ManagerUnchanged
     ELSE IF ok THEN
       /\ calls' = [calls EXCEPT ![c].backend = "ok", ![c].timer = cleared,
                                 ![c].qphase = "returned"]
       /\ UNCHANGED nCalls
       /\ ManagerUnchanged
     ELSE
       QueryCatch(c, BackendErrorClass(DbTypeOf(calls[c].key)),
                  [calls EXCEPT ![c].backend = "error", ![c].timer = cleared])

\* the timer of executeWithTimeout fires
TimerFire(c) ==
  /\ calls[c].timer = "armed"
  /\ now >= calls[c].fireAt
  /\ QueryCatch(c, "TimeoutError", [calls EXCEPT ![c].timer = "fired"])

\* the catch block resumes from its `await getConnection()` (call g),
\* logs and throws
QueryCatchDone(g) ==
  /\ calls[g].parent # 0
  /\ calls[g].pc = "done"
  /\ calls[calls[g].parent].qphase = "catching"
  /\ calls' = [calls EXCEPT ![calls[g].parent].qphase = "thrown",
                            ![calls[g].parent].thrown = Rethrown(calls[calls[g].parent].cause)]
  /\ UNCHANGED nCalls
  /\ ManagerUnchanged

\* runWithTenant(tenant, fn, {lazyConnection: true}) at top level, once
OpenScope ==
  /\ Scopes = {}
  /\ \E k \in Keys : RunWithTenant(Tenant(k), TRUE, 0)

DoExecuteQuery == \E ctx \in Contexts, shape \in QueryShapes : ExecuteQuery(ctx, shape)
DoQueryResume == \E c \in Calls : QueryResume(c)
DoBackendSettle == \E c \in Calls, ok \in BOOLEAN : BackendSettle(c, ok)
DoTimerFire == \E c \in Calls : TimerFire(c)
DoQueryCatchDone == \E g \in Calls : QueryCatchDone(g)

NextQuery ==
  \/ Tick
  \/ OpenScope
  \/ DoExecuteQuery
  \/ DoQueryResume
  \/ DoBackendSettle
  \/ DoTimerFire
  \/ DoQueryCatchDone
  \/ DoConfigLookup
  \/ DoConnectOnce
  \/ DoProbeDone
  \/ DoStaleCloseDone

SpecQuery == Init /\ [][NextQuery]_vars

(***************************************************************************)
(* Configuration resolver (config/dbConfig.ts)                             *)
(***************************************************************************)
\* new LRUCache(1000, envConfig.CONFIG_CACHE_TTL_MS || undefined)
CONFIG_CACHE_MAX_SIZE == 1000

\* generateConfigCacheKey(appId, orgId): the (appId, orgId) pairs in use
ConfigKeys == 1..NumKeys

\* the rows the central store can hold for a pair, by version
ConfigRows == {1, 2}

\* what `await centralDB.query(...)` ends with: it rejects, it has no
\* matching row, or it has a row
StoreOutcomes == {"error", "empty", "row"}

ResolverUnchanged ==
  UNCHANGED <<now, cache, maxSize, ttl, maxAttempts, pending, limits, est,
              lastValidated, closed, closeFailed, nConnect, lruOp>>

\* fetchDBConfig(appId, orgId) up to its first await or return
FetchDBConfig(k) ==
  /\ nCalls < MaxCalls
  /\ LET c == nCalls + 1
         cached == LruGetValue(configCache, k, now, CONFIG_CACHE_TTL_MS)
         me == [NoCall EXCEPT !.op = "fetch", !.key = k]
     IN
     /\ nCalls' = c
     /\ configCache' = LruGetCache(configCache, k, now, CONFIG_CACHE_TTL_MS)
     /\ IF cached # 0
          THEN calls' = [calls EXCEPT ![c] = [me EXCEPT !.pc = "done", !.ret = cached]]
          ELSE calls' = [calls EXCEPT ![c] = [me EXCEPT !.pc = "store", !.queried = TRUE]]
  /\ ResolverUnchanged

\* what fetchDBConfig does to the cache with the outcome of the store query
CacheRowAlways(cc, k, outcome, row, t) ==
  LruSetCache(cc, k, IF outcome = "row" THEN row ELSE 0, t, CONFIG_CACHE_MAX_SIZE)
CacheRow(cc, k, outcome, row, t) ==
  IF outcome = "row" THEN LruSetCache(cc, k, row, t, CONFIG_CACHE_MAX_SIZE)
  ELSE cc

\* fetchDBConfig resumes from `await centralDB.query(...)`
StoreDone(c, outcome, row) ==
  /\ calls[c].op = "fetch"
  /\ calls[c].pc = "store"
  /\ configCache' = CacheRow(configCache, calls[c].key, outcome, row, now)
  /\ calls' = [calls EXCEPT ![c].pc = "done",
                            ![c].answer = outcome,
                            ![c].storedAt = now,
                            ![c].ret = IF outcome = "row" THEN row ELSE 0,
                            ![c].err = IF outcome = "error" THEN "StoreError" ELSE ""]
  /\ UNCHANGED nCalls
  /\ ResolverUnchanged

\* invalidateConfigCache(appId, orgId)
InvalidateConfigCache(k) ==
  /\ nCalls < MaxCalls
  /\ nCalls' = nCalls + 1
  /\ calls' = [calls EXCEPT ![nCalls + 1] =
                 [NoCall EXCEPT !.op = "invalidate", !.key = k, !.pc = "done"]]
  /\ configCache' = LruDelete(configCache, k)
  /\ ResolverUnchanged

\* clearConfigCache()
ClearConfigCache ==
  /\ nCalls < MaxCalls
  /\ nCalls' = nCalls + 1
  /\ calls' = [calls EXCEPT ![nCalls + 1] =
                 [NoCall EXCEPT !.op = "clearConfig", !.pc = "done"]]
  /\ configCache' = LruClear
  /\ ResolverUnchanged

\* pairs are interchangeable: a call uses a pair already used or the next one
DoFetchDBConfig == \E k \in ConfigKeys \cap NextKeys : FetchDBConfig(k)
DoStoreDone ==
  \E c \in Calls, outcome \in StoreOutcomes, row \in ConfigRows : StoreDone(c, outcome, row)
DoInvalidateConfigCache == \E k \in ConfigKeys \cap NextKeys : InvalidateConfigCache(k)

NextConfig ==
  \/ Tick
  \/ DoFetchDBConfig
  \/ DoStoreDone
  \/ DoInvalidateConfigCache
  \/ ClearConfigCache

SpecConfig == Init /\ [][NextConfig]_vars

(***************************************************************************)
(* getConnectionStats among getConnection and closeConnection calls, with  *)
(* the cache TTL disabled or configured                                    *)
(***************************************************************************)
\* LRUCache.size(): this.cache.size
LruSize(c) == Len(c)

\* pendingConnections.size
PendingSizeNone(pend) == 0
PendingSize(pend) == Cardinality({k \in Keys : pend[k] # 0})

\* getConnectionStats(): <<cachedConnections, pendingConnections, cacheMaxSize>>
GetConnectionStats ==
  /\ nCalls < MaxCalls
  /\ nCalls' = nCalls + 1
  /\ calls' = [calls EXCEPT ![nCalls + 1] =
                 [NoCall EXCEPT !.op = "stats", !.pc = "done",
                                !.stats = <<LruSize(cache), PendingSize(pending),
                                            CONNECTION_CACHE_MAX_SIZE>>]]
  /\ UNCHANGED <<now, cache, maxSize, ttl, maxAttempts, configCache, pending, limits, est,
                 lastValidated, closed, closeFailed, nConnect, lruOp>>

NextStats ==
  \/ Tick
  \/ DoGetConnection
  \/ DoProbeDone
  \/ DoStaleCloseDone
  \/ DoConfigLookup
  \/ DoConnectOnce
  \/ DoCloseConnection
  \/ DoCloseConnectionDone
  \/ GetConnectionStats

SpecStats == InitTTL /\ [][NextStats]_vars

(***************************************************************************)
(* generateCacheKey on strings: getConnection(tenant) for identities whose *)
(* fields are strings of characters; the keys of the manager's maps are    *)
(* the generated strings, numbered in order of first use                   *)
(***************************************************************************)
\* characters VALID_ID_PATTERN admits: an alphanumeric one and the hyphen
IdChars == {"a", "-"}

\* the strings over IdChars of length n
RECURSIVE IdStrings(_)
IdStrings(n) ==
  IF n = 0 THEN {<<>>}
  ELSE {Append(w, ch) : w \in IdStrings(n - 1), ch \in IdChars}

\* field values validateTenantInput accepts: non-empty, every character valid
ValidIds == UNION {IdStrings(n) : n \in MIN_ID_LENGTH..(MaxKeyChars - 2)}

\* valid identities of at most MaxKeyChars characters in all
KeyIdentities ==
  {t \in [appid : ValidIds, orgid : ValidIds, appdbname : ValidIds] :
     Len(t.appid) + Len(t.orgid) + Len(t.appdbname) <= MaxKeyChars}

\* generateCacheKey(appid, orgid, appdbname): `${appid}-${orgid}-${appdbname}`
CacheKeyString(t) == t.appid \o <<"-">> \o t.orgid \o <<"-">> \o t.appdbname

\* the key of the manager's maps that the string generated for t is: the key
\* of an earlier call that generated the same string, else the next unused one
KeyOfString(t) ==
  LET same == {c \in 1..nCalls : calls[c].arg # <<>>
                                  /\ CacheKeyString(calls[c].arg[1]) = CacheKeyString(t)}
  IN IF same # {} THEN calls[CHOOSE c \in same : TRUE].key
     ELSE Cardinality(UsedKeys) + 1

\* getConnection(t) with an explicit identity t
GetConnectionFor(t) ==
  /\ KeyOfString(t) \in Keys
  /\ GetConnectionAs(KeyOfString(t),
                     [NoCall EXCEPT !.op = "get", !.key = KeyOfString(t), !.arg = <<t>>])

\* two identities suffice for a collision: all calls but one
MaxKeyCalls == MaxCalls - 1
DoGetConnectionFor ==
  /\ nCalls < MaxKeyCalls
  /\ \E t \in KeyIdentities : GetConnectionFor(t)

NextKey ==
  \/ DoGetConnectionFor
  \/ DoConfigLookup
  \/ DoConnectOnce

SpecKey == Init /\ [][NextKey]_vars

(***************************************************************************)
(* getConnection calls of one identity under fair scheduling: every        *)
(* awaited connector, probe, close and config-store call settles, and the  *)
(* clock reaches every timer that is waited for                            *)
(***************************************************************************)
\* any retry count up to the default, 0 included
InitLive == \E n \in 0..CONNECTION_RETRY_ATTEMPTS : InitState(0, n)

\* the backoff timers still to fire
WaitingTimers == {est[p].due : p \in {q \in Calls : est[q].state = "backoff" /\ now < est[q].due}}

\* the clock advances by one up to MaxTime, and beyond it to the next backoff
\* timer that is still to fire
TickLive ==
  /\ \/ /\ now < MaxTime
        /\ now' = now + 1
     \/ /\ now >= MaxTime
        /\ WaitingTimers # {}
        /\ now' = CHOOSE d \in WaitingTimers : \A e \in WaitingTimers : d <= e
  /\ UNCHANGED <<cache, maxSize, ttl, maxAttempts, configCache, pending, limits, nCalls, calls, est,
                 lastValidated, closed, closeFailed, nConnect, lruOp>>

\* getConnection of the first identity, MaxKeyCalls times at most
GetLive ==
  /\ nCalls < MaxKeyCalls
  /\ GetFirstKey

NextLive ==
  \/ TickLive
  \/ GetLive
  \/ DoProbeDone
  \/ DoStaleCloseDone
  \/ DoConfigDone
  \/ DoConnectAny
  \/ DoBackoffDone

SpecLive ==
  /\ InitLive
  /\ [][NextLive]_vars
  /\ WF_vars(TickLive)
  /\ WF_vars(DoProbeDone)
  /\ WF_vars(DoStaleCloseDone)
  /\ WF_vars(DoConfigDone)
  /\ WF_vars(DoConnectAny)
  /\ WF_vars(DoBackoffDone)

(***************************************************************************)
(* Properties                                                              *)
(***************************************************************************)
\* this step issues getConnection for key k; the new call is nCalls'
IssuesGet(k) ==
  /\ nCalls' = nCalls + 1
  /\ calls'[nCalls'].op = "get"
  /\ calls'[nCalls'].key = k

Admitted(c) == calls[c].op = "get" /\ calls[c].err # "RateLimited"

NoCloseAllSince(c1) ==
  \A c \in Calls : (c > c1 /\ c <= nCalls) => calls[c].op # "closeAll"

\* establishment c1 was started by a miss on an idle key and nothing but
\* getConnection / closeConnection calls were issued since
CleanInFlight(c1) == est[c1].clean /\ InFlight(c1) /\ NoCloseAllSince(c1)

\* a getConnection for the key issued while c1 is in flight joins c1
C1_Join ==
  \A c1 \in Calls :
    (CleanInFlight(c1) /\ IssuesGet(est[c1].key) /\ calls'[nCalls'].err # "RateLimited")
      => /\ calls'[nCalls'].pc = "join"
         /\ calls'[nCalls'].prom = c1
         /\ est'[nCalls'] = NoEst
         /\ nConnect' = nConnect

\* every _createConnection invocation for the key is an attempt of c1
C1_Connects ==
  \A c1 \in Calls :
    CleanInFlight(c1)
      => nConnect'[est[c1].key] - est[c1].base = est'[c1].attempt

\* when c1 resolves every admitted caller since c1 gets c1's record; a first
\* attempt that succeeds leaves exactly one _createConnection invocation
C1_Resolve ==
  \A c1 \in Calls :
    (CleanInFlight(c1) /\ est'[c1].state = "ok")
      => /\ \A c \in Calls :
              (c >= c1 /\ c <= nCalls /\ Admitted(c) /\ calls[c].key = est[c1].key)
                => (calls'[c].pc = "done" /\ calls'[c].ret = c1)
         /\ est[c1].attempt = 1 => nConnect'[est[c1].key] - est[c1].base = 1

C2_OneOutstanding ==
  \A k \in Keys : Cardinality({p \in Calls : InFlight(p) /\ est[p].key = k}) <= 1

\* the record h returned by an earlier call is still the live record of key k
LiveRecord(k, h) ==
  LET i == LruIndex(cache, k) IN
    /\ i # 0
    /\ cache[i].value = h
    /\ h \notin closed
    /\ (ttl = 0 \/ now - cache[i].lastAccessed <= ttl)
    /\ now - lastValidated[h] <= CONNECTION_VALIDATION_TTL_MS
    /\ pending[k] = 0

\* C3: a getConnection that follows a completed getConnection for the same
\* identity, with the record still cached, unclosed and inside its validation
\* window, returns the identical record and performs no connect().
C3_SequentialSame ==
  [][\A k \in Keys, c1 \in Calls :
       (/\ calls[c1].op = "get" /\ calls[c1].key = k
        /\ calls[c1].pc = "done" /\ calls[c1].ret # 0
        /\ LiveRecord(k, calls[c1].ret)
        /\ IssuesGet(k))
         => /\ calls'[nCalls'].pc = "done"
            /\ calls'[nCalls'].ret = calls[c1].ret
            /\ est'[nCalls'] = NoEst
            /\ nConnect' = nConnect]_vars

\* callers that wait on the promise p: its creator and every admitted caller
\* that found p in pendingConnections
Waiters(p) == {c \in Calls : calls[c].op = "get" /\ (c = p \/ calls[c].saw = p)}

C5_Failure ==
  \A p \in Calls :
    (InFlight(p) /\ est'[p].state = "failed")
      => /\ est'[p].err \in {"NoConfig", "StoreError", "Transient", "Fatal"}
         /\ pending'[est[p].key] = 0
         /\ cache' = cache
         /\ \A c \in Joiners(p) :
              calls'[c].pc = "done" /\ calls'[c].ret = 0 /\ calls'[c].err = est'[p].err

\* every cached record was produced by a successful connect() for its key
C5_OnlySucceeded ==
  \A i \in 1..Len(cache) :
    LET h == cache[i].value IN
      est[h].state = "ok" /\ est[h].key = cache[i].key /\ lastValidated[h] # 0

\* C5: a terminal establishment failure removes the key's pending slot,
\* delivers the error to every waiter and stores no record; a cache record
\* exists for a key only if a connect() for it fully succeeded.
C5_FailureLeavesNothing == [][C5_Failure]_vars /\ []C5_OnlySucceeded

C5_Witness ==
  \E p, c \in Calls :
    /\ c # p
    /\ est[p].state = "failed" /\ est[p].err = "Transient"
    /\ est[p].attempt = CONNECTION_RETRY_ATTEMPTS
    /\ calls[c].prom = p /\ calls[c].err = "Transient"
    /\ pending[est[p].key] = 0
    /\ LruIndex(cache, est[p].key) = 0

\* C6: the number of entries never exceeds the configured capacity.
C6_SizeBounded == Len(cache) <= maxSize

C6_Witness ==
  /\ lruOp = "evict"
  /\ Len(cache) = maxSize

\* C7: inserting a new key into a full cache evicts exactly one entry, and
\* that entry's last access is the oldest of all entries.
C7_EvictsLeastRecent ==
  [][\A k \in LruKeySet :
       (LruIndex(cache, k) = 0 /\ LruIndex(cache', k) # 0 /\ Len(cache) >= maxSize)
         => \E i \in 1..Len(cache) :
              /\ cache' = Append(LruRemoveAt(cache, i), cache'[Len(cache')])
              /\ \A j \in 1..Len(cache) :
                   cache[i].lastAccessed <= cache[j].lastAccessed]_vars

\* age of the cached entry of key k
EntryAge(k) == now - cache[LruIndex(cache, k)].lastAccessed

\* C8: with a TTL configured, an entry untouched for longer than the TTL is
\* treated as absent by the next getConnection for its key, which starts a
\* fresh establishment; with TTL 0 no entry expires by age.
C8_TtlExpiry ==
  [][\A k \in Keys :
       (IssuesGet(k) /\ LruIndex(cache, k) # 0)
         => LET c == nCalls'
                h == cache[LruIndex(cache, k)].value
            IN
            /\ (ttl > 0 /\ EntryAge(k) > ttl)
                 => /\ calls'[c].ret = 0
                    /\ calls'[c].pc # "probe"
                    /\ (calls'[c].err # "RateLimited" /\ pending[k] = 0)
                         => /\ LruIndex(cache', k) = 0
                            /\ est'[c].state = "config"
                            /\ pending'[k] = c
                            /\ calls'[c].pc = "join" /\ calls'[c].prom = c
            /\ (ttl = 0 \/ EntryAge(k) <= ttl)
                 => /\ LruIndex(cache', k) # 0
                    /\ (calls'[c].err # "RateLimited" /\ pending[k] = 0)
                         => /\ est'[c] = NoEst
                            /\ \/ calls'[c].pc = "done" /\ calls'[c].ret = h
                               \/ calls'[c].pc = "probe" /\ calls'[c].held = h]_vars

C8_Witness ==
  /\ ttl > 0
  /\ closed = {}
  /\ \E h, c \in Calls :
       /\ h < c
       /\ est[h].state = "ok"
       /\ est[c].state = "ok" /\ est[c].key = est[h].key
       /\ calls[c].op = "get" /\ calls[c].ret = c
       /\ \A d \in Calls : calls[d].op \in {"none", "get"}

\* one check(key) of the rate limiter, as getConnection sees it
C9_Window ==
  \A k \in Keys :
    IssuesGet(k) =>
      LET c == nCalls'
          e == limits[k]
          open == e.count > 0 /\ now <= e.resetTime
      IN
      /\ (open /\ e.count < RATE_LIMIT_MAX_REQUESTS)
           => /\ calls'[c].err # "RateLimited"
              /\ limits'[k] = [e EXCEPT !.count = e.count + 1]
      /\ (open /\ e.count >= RATE_LIMIT_MAX_REQUESTS)
           => /\ calls'[c].pc = "done" /\ calls'[c].err = "RateLimited"
              /\ calls'[c].ret = 0
              /\ limits'[k] = e
      /\ ~open
           => /\ calls'[c].err # "RateLimited"
              /\ limits'[k] = [count |-> 1, resetTime |-> now + RATE_LIMIT_WINDOW_MS]
      /\ \A k2 \in Keys \ {k} : limits'[k2] = limits[k2]

\* C9: within one window the first N requests of a key are admitted and the
\* next is rejected; the first request after the reset time is admitted and
\* opens a new window with count 1; other keys' windows are not touched.
C9_RateWindow ==
  [][C9_Window]_vars
  /\ [](\A k \in Keys : limits[k].count <= RATE_LIMIT_MAX_REQUESTS)

C9_Witness ==
  \E k \in Keys :
    /\ nCalls = RATE_LIMIT_MAX_REQUESTS + 1
    /\ \A c \in 1..RATE_LIMIT_MAX_REQUESTS : Admitted(c) /\ calls[c].key = k
    /\ calls[nCalls].op = "get" /\ calls[nCalls].key = k
    /\ calls[nCalls].err = "RateLimited"
    /\ limits[k].count = RATE_LIMIT_MAX_REQUESTS

\* C10: a getConnection served from a live cached record or by joining a
\* pending slot does not consume the key's window count and is not rejected.
C10_NoCountOnReuse ==
  [][\A k \in Keys :
       (/\ IssuesGet(k)
        /\ \/ pending[k] # 0
           \/ \E c1 \in Calls : LiveRecord(k, c1))
         => /\ limits'[k] = limits[k]
            /\ calls'[nCalls'].err # "RateLimited"]_vars

\* C11: when every connect() fails with a transient error the establishment
\* is retried exactly N times after the initial attempt (N the configured
\* number of retry attempts) before the error is surfaced.
C11_RetriedNTimes ==
  [][\A p \in Calls :
       (est[p].state = "connecting" /\ est'[p].state = "failed"
        /\ est'[p].err = "Transient")
         => est[p].attempt - 1 = maxAttempts]_vars

\* C12: the delay before the k-th retry is base * 2^(k-1), and the retry is
\* not started before that delay has elapsed.
C12_BackoffDelay ==
  [][\A p \in Calls :
       /\ (est[p].state = "connecting" /\ est'[p].state = "backoff")
            => est'[p].due - now = CONNECTION_RETRY_DELAY_MS * (2 ^ (est[p].attempt - 1))
       /\ (est[p].state = "backoff" /\ est'[p].state = "connecting")
            => /\ now >= est[p].due
               /\ est'[p].attempt = est[p].attempt + 1]_vars

\* the second retry has started: it waited base, then 2 * base
C12_Witness ==
  \E p \in Calls :
    /\ est[p].state = "connecting"
    /\ est[p].attempt = 3
    /\ now >= 1 + CONNECTION_RETRY_DELAY_MS + 2 * CONNECTION_RETRY_DELAY_MS

\* C13: a failure that is not a network condition (another driver error, an
\* unsupported backend kind, a missing schema or data center) is never
\* retried: the error propagates after that connect attempt.
C13_NonTransientNoRetry ==
  [][\A p \in Calls :
       (est[p].state = "connecting" /\ est'[p].state \in {"backoff", "failed"}
        /\ est'[p].err \in {"Fatal"} \cup DescriptorErrors)
         => est'[p].state = "failed"]_vars

\* C14: when closeAllConnections() returns, the cache, the pending table and
\* the rate limiter are empty, and close was attempted on every record that
\* was cached when it was called, whether or not some close raised.
C14_CloseAllDrains ==
  [][\A c \in Calls :
       (calls[c].pc # "done" /\ calls'[c].pc = "done" /\ calls'[c].op = "closeAll")
         => /\ cache' = <<>>
            /\ pending' = [k \in Keys |-> 0]
            /\ limits' = [k \in Keys |-> NoLimit]
            /\ calls'[c].snap \subseteq closed'
            /\ calls'[c].todo = <<>>]_vars

\* closeAllConnections returned after two closes, one of which raised
C14_Witness ==
  \E c \in Calls :
    /\ calls[c].op = "closeAll" /\ calls[c].pc = "done"
    /\ Cardinality(calls[c].snap) = 2
    /\ calls[c].snap \cap closeFailed # {}
    /\ calls[c].snap \subseteq closed
    /\ cache = <<>>

\* the record of key k that a getConnection issued now finds in the cache:
\* present and not expired by the cache TTL (0 when there is none)
CachedRecord(k) ==
  LET i == LruIndex(cache, k) IN
    IF i # 0 /\ (ttl = 0 \/ now - cache[i].lastAccessed <= ttl)
      THEN cache[i].value ELSE 0

InValidationWindow(h) ==
  lastValidated[h] # 0 /\ now - lastValidated[h] <= CONNECTION_VALIDATION_TTL_MS

\* C15: a getConnection issued while the cached record is inside its
\* validation window performs no probe and returns the cached record.
C15_ReuseWithoutProbe ==
  [][\A k \in Keys :
       (IssuesGet(k) /\ CachedRecord(k) # 0 /\ InValidationWindow(CachedRecord(k)))
         => /\ calls'[nCalls'].pc = "done"
            /\ calls'[nCalls'].ret = CachedRecord(k)]_vars

\* a getConnection that finds a record whose validation window has elapsed
\* does not return it in that step; admitted and with no pending slot it
\* suspends on the probe of that record
C16_ProbeFirst ==
  \A k \in Keys :
    (IssuesGet(k) /\ CachedRecord(k) # 0 /\ ~InValidationWindow(CachedRecord(k)))
      => /\ calls'[nCalls'].ret = 0
         /\ (calls'[nCalls'].err # "RateLimited" /\ pending[k] = 0)
              => /\ calls'[nCalls'].pc = "probe"
                 /\ calls'[nCalls'].held = CachedRecord(k)
                 /\ est'[nCalls'] = NoEst

\* a successful probe returns the probed handle, stamps it with the current
\* time and keeps it in the cache
C16_ProbeValid ==
  \A c \in Calls :
    (calls[c].pc = "probe" /\ calls'[c].pc = "done")
      => /\ calls'[c].ret = calls[c].held
         /\ calls'[c].err = ""
         /\ lastValidated'[calls[c].held] = now
         /\ LruIndex(cache', calls[c].key) # 0
         /\ cache'[LruIndex(cache', calls[c].key)].value = calls[c].held

\* no getConnection probes a record that is inside its validation window
C16_SkipInWindow ==
  \A k \in Keys :
    (IssuesGet(k) /\ CachedRecord(k) # 0 /\ InValidationWindow(CachedRecord(k)))
      => calls'[nCalls'].pc # "probe"

\* C16: once the validation window has elapsed getConnection probes the
\* cached handle before returning it; a successful probe returns the same
\* handle with lastValidated set to the current time, and calls inside the
\* new window do not probe.
C16_ProbeAfterWindow == [][C16_ProbeFirst /\ C16_ProbeValid /\ C16_SkipInWindow]_vars

\* call c probed h and returned it; a later call returned h without a probe
C16_Witness ==
  \E c, c2, h \in Calls :
    /\ h < c /\ c < c2
    /\ calls[c].held = h /\ calls[c].ret = h
    /\ lastValidated[h] = now /\ now > 1
    /\ calls[c2].pc = "done" /\ calls[c2].held = 0 /\ calls[c2].ret = h

\* a failed probe closes the probed handle
C17_Closes ==
  \A c \in Calls :
    (calls[c].pc = "probe" /\ calls'[c].pc # "probe")
      => \/ calls'[c].pc = "done"
         \/ calls'[c].pc = "closing" /\ calls[c].held \in closed'

\* after the close, raising or not, the same call removes the key from the
\* cache and starts an establishment
C17_Removes ==
  \A c \in Calls :
    (calls[c].pc = "closing" /\ calls'[c].pc # "closing")
      => /\ LruIndex(cache', calls[c].key) = 0
         /\ est'[c].state = "config" /\ est'[c].key = calls[c].key
         /\ calls'[c].pc = "join" /\ calls'[c].prom = c

\* when that establishment succeeds the caller gets the new handle, which is
\* not the closed one and is what the cache holds for the key
C17_Replaces ==
  \A c \in Calls :
    (calls[c].held # 0 /\ InFlight(c) /\ est'[c].state = "ok")
      => /\ calls'[c].pc = "done" /\ calls'[c].ret = c
         /\ c # calls[c].held
         /\ calls[c].held \in closed
         /\ LruIndex(cache', calls[c].key) # 0
         /\ cache'[LruIndex(cache', calls[c].key)].value = c

\* C17: on a failed probe of the cached record H1 the same getConnection
\* call closes H1 (a raising close is not fatal), removes it from the cache
\* and establishes H2 # H1, which the caller receives and the cache holds.
C17_StaleReplaced == [][C17_Closes /\ C17_Removes /\ C17_Replaces]_vars

\* H1's close raised and the caller still got H2
C17_Witness ==
  \E c \in Calls :
    /\ calls[c].op = "get" /\ calls[c].held # 0
    /\ calls[c].held \in closeFailed
    /\ calls[c].ret = c /\ est[c].state = "ok"
    /\ LruIndex(cache, calls[c].key) # 0
    /\ cache[LruIndex(cache, calls[c].key)].value = c

\* a field value that is not a non-empty string of at most 255 characters
\* from [a-zA-Z0-9_.-]
Malformed(v) ==
  \/ v.type # "string"
  \/ v.len = 0
  \/ v.len > 255
  \/ ~v.clean

MalformedFields(t) ==
  {f \in {"appid", "orgid", "appdbname"} : Malformed(t[f])}

\* this step is a runWithTenant call with a malformed identity
IssuesMalformedRun ==
  /\ nCalls' = nCalls + 1
  /\ calls'[nCalls'].arg # <<>>
  /\ MalformedFields(calls'[nCalls'].arg[1]) # {}

\* the call fails at once, lists each malformed field once, touches nothing
C18_Rejects ==
  IssuesMalformedRun
    => /\ calls'[nCalls'].pc = "done"
       /\ calls'[nCalls'].thrown = "ValidationError"
       /\ {calls'[nCalls'].msg[i].field : i \in 1..Len(calls'[nCalls'].msg)}
            = MalformedFields(calls'[nCalls'].arg[1])
       /\ Len(calls'[nCalls'].msg) = Cardinality(MalformedFields(calls'[nCalls'].arg[1]))
       /\ calls'[nCalls'].scope = "invalid"
       /\ calls'[nCalls'].store = <<>>
       /\ limits' = limits /\ est' = est /\ pending' = pending
       /\ cache' = cache /\ nConnect' = nConnect

\* nothing runs for a rejected call afterwards
C18_NothingAfter ==
  \A c \in Calls : calls[c].scope = "invalid" => calls'[c] = calls[c]

\* C18: runWithTenant with a malformed identity fails with a ValidationError
\* that names every malformed field, before any rate-limit consumption,
\* configuration lookup or connect(), and never invokes the unit of work.
C18_ValidationFirst == [][C18_Rejects /\ C18_NothingAfter]_vars

\* all three fields were malformed and all three are listed, after traffic
\* that left state in the rate limiter
C18_Witness ==
  \E c \in Calls :
    /\ c > 1
    /\ calls[c].thrown = "ValidationError"
    /\ Len(calls[c].msg) = 3
    /\ calls[c].arg[1].appid.clean = FALSE
    /\ calls[c].arg[1].orgid.len > 255
    /\ calls[c].arg[1].appdbname.type = "undefined"
    /\ limits[1].count > 0

\* this step issues a getConnection() without identity; the new call is nCalls'
IssuesImplicitGet ==
  /\ nCalls' = nCalls + 1
  /\ calls'[nCalls'].op = "get"
  /\ calls'[nCalls'].arg = <<>>

\* getTenant() inside scope c returns the identity c was called with
C19_Inside ==
  \A c \in Calls :
    /\ (calls'[c].read /\ calls'[c].arg # <<>>) => calls'[c].seen = calls'[c].arg
    /\ (IssuesImplicitGet /\ calls'[nCalls'].ctx = c)
         => /\ calls[c].scope = "running"
            /\ calls'[nCalls'].err # "TenantContextError"
            /\ calls'[nCalls'].key = GenerateCacheKey(calls[c].arg[1])

\* code outside every scope has no identity, whatever scopes are open or
\* have settled
C19_Outside ==
  (IssuesImplicitGet /\ calls'[nCalls'].ctx = 0)
    => /\ calls'[nCalls'].err = "TenantContextError"
       /\ calls'[nCalls'].key = 0

\* no code runs in a scope that has settled or was never entered
C19_Gone ==
  \A c \in Calls :
    calls[c].scope \in {"settled", "failed", "rejected", "invalid"}
      => /\ ~calls'[c].read /\ calls'[c].seen = <<>>
         /\ \A d \in Calls : (calls[d].op = "none" /\ calls'[d].op # "none")
                                 => calls'[d].ctx # c

\* C19: inside runWithTenant(identity, unitOfWork) getTenant() returns
\* identity throughout the unit of work, also with other scopes interleaved
\* or nested; once the unit of work settles nothing runs with that binding,
\* and getTenant() outside any scope returns none.
C19_AmbientIdentity == [][C19_Inside /\ C19_Outside /\ C19_Gone]_vars

\* two scopes with different identities are open together, the older one
\* reads its identity after the newer one was entered, and a call outside
\* found no identity
C19_Witness ==
  \E c1, c2, c3 \in Calls :
    /\ c1 < c2
    /\ calls[c1].scope = "running" /\ calls[c2].store # <<>>
    /\ calls[c1].arg # calls[c2].arg
    /\ calls[c1].read /\ calls[c1].seen = calls[c1].arg
    /\ calls[c3].err = "TenantContextError" /\ c3 > c2

\* an eager runWithTenant starts with a getConnection for its identity and
\* has not invoked the unit of work
C20_AcquiresFirst ==
  \A c \in Calls :
    (calls[c].op = "none" /\ calls'[c].arg # <<>> /\ ~calls'[c].lazy
     /\ calls'[c].scope # "invalid")
      => /\ calls'[c].op = "get"
         /\ calls'[c].key = GenerateCacheKey(calls'[c].arg[1])
         /\ calls'[c].scope = "acquiring"

\* the unit of work is invoked only with the connection acquired; a failed
\* acquisition rejects runWithTenant with the same error
C20_FailFast ==
  \A c \in Calls :
    (calls[c].scope = "acquiring" /\ calls'[c].scope # "acquiring")
      => /\ calls[c].pc = "done"
         /\ calls[c].err = "" => (calls'[c].scope = "running" /\ calls[c].ret # 0)
         /\ calls[c].err # "" => (calls'[c].scope = "rejected"
                                   /\ calls'[c].thrown = calls[c].err)

\* a lazy runWithTenant invokes the unit of work at once and starts nothing
C20_Lazy ==
  \A c \in Calls :
    (calls[c].op = "none" /\ calls'[c].arg # <<>> /\ calls'[c].lazy
     /\ calls'[c].scope # "invalid")
      => /\ calls'[c].scope = "running"
         /\ est' = est /\ pending' = pending /\ limits' = limits
         /\ cache' = cache /\ nConnect' = nConnect

\* a scope that was rejected never runs its unit of work
C20_NeverInvoked ==
  \A c \in Calls : calls[c].scope = "rejected" => calls'[c].scope = "rejected"

\* C20: unless lazyConnection is true runWithTenant acquires the connection
\* with getConnection before it invokes the unit of work, and when that
\* fails it rejects with that error without invoking it; with lazyConnection
\* true it starts no establishment before the unit of work runs.
C20_EagerAcquire ==
  [][C20_AcquiresFirst /\ C20_FailFast /\ C20_Lazy /\ C20_NeverInvoked]_vars

\* an eager scope was rejected with the establishment's error, and a lazy
\* scope ran with nothing established for its identity
C20_Witness ==
  \E c1, c2 \in Calls :
    /\ calls[c1].scope = "rejected" /\ ~calls[c1].lazy
    /\ calls[c1].thrown \in {"NoConfig", "Fatal"} /\ est[c1].state = "failed"
    /\ calls[c2].lazy /\ calls[c2].scope \in {"running", "settled"}
    /\ est[c2].state = "none"
    /\ calls[c2].arg # calls[c1].arg
    /\ nConnect[GenerateCacheKey(calls[c2].arg[1])] = 0

\* settling the unit of work closes nothing and leaves the cache as it is
C21_SettleKeeps ==
  \A c \in Calls :
    (calls[c].scope = "running" /\ calls'[c].scope \in {"settled", "failed"})
      => /\ cache' = cache
         /\ closed' = closed
         /\ lastValidated' = lastValidated

\* a getConnection for the identity of a settled scope, issued from outside
\* that scope while the scope's record is still the live record of the key
C21_LaterSame ==
  \A c \in Calls :
    (/\ calls[c].scope \in {"settled", "failed"}
     /\ calls[c].ret # 0
     /\ LiveRecord(calls[c].key, calls[c].ret)
     /\ IssuesGet(calls[c].key))
      => /\ calls'[nCalls'].pc = "done"
         /\ calls'[nCalls'].ret = calls[c].ret
         /\ nConnect' = nConnect

\* C21: when the unit of work of runWithTenant settles, the connection is
\* not closed and its record stays cached; a later getConnection for the
\* same identity from another scope returns the same handle with no connect().
C21_KeptAfterScope == [][C21_SettleKeeps /\ C21_LaterSame]_vars

\* the entries of the keys other than k, in Map order
OtherEntries(c, k) ==
  LET Other(e) == e.key # k IN SelectSeq(c, Other)

\* closeConnection invokes close on the record it finds
C22_Closes ==
  \A c \in Calls :
    (calls[c].op = "none" /\ calls'[c].op = "close" /\ LruIndex(cache, calls'[c].key) # 0)
      => /\ calls'[c].held = cache[LruIndex(cache, calls'[c].key)].value
         /\ calls'[c].held \in closed'
         /\ OtherEntries(cache', calls'[c].key) = OtherEntries(cache, calls'[c].key)

\* when closeConnection completes the key has no record, and nothing else
\* of the cache, the pending table or the establishments has changed
C22_Removes ==
  \A c \in Calls :
    (calls'[c].op = "close" /\ calls[c].pc # "done" /\ calls'[c].pc = "done")
      => /\ LruIndex(cache', calls'[c].key) = 0
         /\ calls'[c].held # 0 => calls'[c].held \in closed'
         /\ OtherEntries(cache', calls'[c].key) = OtherEntries(cache, calls'[c].key)
         /\ pending' = pending /\ est' = est

\* closeConnection for a key with no record changes nothing
C22_NoRecord ==
  \A c \in Calls :
    (calls[c].op = "none" /\ calls'[c].op = "close" /\ LruIndex(cache, calls'[c].key) = 0)
      => /\ calls'[c].pc = "done"
         /\ cache' = cache /\ pending' = pending /\ limits' = limits
         /\ est' = est /\ closed' = closed

\* C22: after closeConnection(identity) completes the cache holds no record
\* for it and close was invoked on the handle that was cached, whatever
\* getConnection calls for the identity ran meanwhile; other identities'
\* records are untouched and closing an identity with no record changes nothing.
C22_CloseConnection == [][C22_Closes /\ C22_Removes /\ C22_NoRecord]_vars

\* closeConnection completed although a getConnection for the same key ran
\* during its close and was handed the record being closed, with another
\* identity's record still cached
C22_Witness ==
  \E c, g \in Calls :
    /\ calls[c].op = "close" /\ calls[c].pc = "done" /\ calls[c].held # 0
    /\ g > c /\ calls[g].op = "get" /\ calls[g].key = calls[c].key
    /\ calls[g].ret = calls[c].held
    /\ calls[c].held \in closed
    /\ LruIndex(cache, calls[c].key) = 0

\* the backend call starts together with the timer, which is armed for the
\* timeout of the backend kind unless that is 0 or less
C23_Arms ==
  \A c \in Calls :
    (calls[c].qphase = "connecting" /\ calls'[c].qphase = "executing")
      => LET t == QueryTimeout(DbTypeOf(calls[c].key)) IN
           /\ calls'[c].backend = "pending"
           /\ IF t <= 0 THEN calls'[c].timer = "none"
              ELSE calls'[c].timer = "armed" /\ calls'[c].fireAt = now + t

\* the timer fires no earlier than the timeout; the caller is then on its
\* way to a TimeoutError and the backend call is still in flight
C23_TimerFirst ==
  \A c \in Calls :
    (calls[c].timer = "armed" /\ calls'[c].timer = "fired")
      => /\ now >= calls[c].fireAt
         /\ calls[c].backend = "pending" /\ calls'[c].backend = "pending"
         /\ calls'[c].cause = "TimeoutError"

\* the backend call settles while the race is open: the caller gets its
\* result, or its error, and the timer is cleared
C23_BackendFirst ==
  \A c \in Calls :
    (calls[c].backend = "pending" /\ calls'[c].backend # "pending"
       /\ calls[c].timer # "fired")
      => /\ calls'[c].timer \in {"cleared", "none"}
         /\ calls'[c].backend = "ok" => calls'[c].qphase = "returned"
         /\ calls'[c].backend = "error"
              => calls'[c].cause = BackendErrorClass(DbTypeOf(calls[c].key))

\* what the caller ends with: TimeoutError exactly when the timer fired; a
\* cleared timer never fires and a returned result stays
C23_Outcome ==
  \A c \in Calls :
    /\ (calls'[c].qphase = "thrown" /\ calls'[c].timer = "fired")
         => calls'[c].thrown = "TimeoutError"
    /\ calls'[c].timer # "fired"
         => calls'[c].thrown # "TimeoutError" /\ calls'[c].cause # "TimeoutError"
    /\ (calls'[c].qphase = "thrown" /\ calls'[c].backend = "error"
          /\ calls'[c].timer # "fired")
         => /\ calls'[c].thrown = "QueryError"
            /\ calls'[c].cause = BackendErrorClass(DbTypeOf(calls'[c].key))
    /\ calls[c].timer \in {"cleared", "none"} /\ calls[c].qphase # "connecting"
         => calls'[c].timer = calls[c].timer
    /\ calls[c].qphase = "returned" => calls'[c] = calls[c]

\* C23: executeQuery races the backend call against the timeout of the
\* backend kind: timer first gives TimeoutError and leaves the backend call
\* running, backend first gives its result or error and no TimeoutError
\* later; a timeout of 0 or less arms no timer.
C23_TimeoutRace ==
  [][C23_Arms /\ C23_TimerFirst /\ C23_BackendFirst /\ C23_Outcome]_vars

\* a query timed out, its caller got TimeoutError, and the backend call
\* settled afterwards
C23_Witness ==
  \E c \in Calls :
    /\ calls[c].timer = "fired"
    /\ calls[c].qphase = "thrown" /\ calls[c].thrown = "TimeoutError"
    /\ calls[c].backend \in {"ok", "error"}

\* C24: a failing executeQuery is never retried: every executeQuery call
\* invokes the backend execute operation at most once.
C24_AtMostOneExecute == \A c \in Calls : calls[c].execs <= 1

\* an executeQuery call failed on its backend call and was not retried
C24_Witness ==
  \E c \in Calls :
    /\ calls[c].qphase = "thrown" /\ calls[c].backend = "error"
    /\ calls[c].timer # "fired"
    /\ calls[c].execs = 1

\* C25: an error raised while executeQuery obtains the connection reaches
\* the executeQuery caller with its own class (TenantContextError with no
\* ambient tenant, ConnectionError for a failed or rate-limited establishment).
C25_KeepsClass ==
  \A c \in Calls :
    (calls[c].qphase = "thrown" /\ calls[c].err # "")
      => calls[c].thrown = ErrorClass(calls[c].err)

\* C26: a query whose shape is malformed for the tenant's backend kind is
\* rejected before any I/O: no establishment, no probe and no backend call
\* happens for it.
C26_RejectedBeforeIO ==
  \A c \in Calls :
    (/\ calls[c].qphase # ""
     /\ calls[c].key # 0
     /\ ~ShapeOk(DbTypeOf(calls[c].key), calls[c].qshape))
      => /\ est[c].state = "none"
         /\ calls[c].pc \notin {"join", "probe", "closing"}
         /\ calls[c].execs = 0

\* C27: getConnection() with no explicit identity, called outside every
\* runWithTenant scope, fails with TenantContextError and changes nothing:
\* cache, pending table and every rate-limit window are as before.
C27_NoContextNoChange ==
  [][(IssuesImplicitGet /\ calls'[nCalls'].ctx = 0)
       => /\ calls'[nCalls'].pc = "done"
          /\ calls'[nCalls'].err = "TenantContextError"
          /\ calls'[nCalls'].ret = 0
          /\ cache' = cache /\ pending' = pending /\ limits' = limits
          /\ est' = est /\ lastValidated' = lastValidated /\ closed' = closed
          /\ \A c \in Calls : c # nCalls' => calls'[c] = calls[c]]_vars

\* getConnection() failed outside every scope while a scope was running and
\* its tenant's record was cached and counted by the rate limiter
C27_Witness ==
  \E c, d \in Calls :
    /\ nCalls = c /\ d < c
    /\ calls[c].op = "get" /\ calls[c].ctx = 0 /\ calls[c].arg = <<>>
    /\ calls[c].qphase = "" /\ calls[c].parent = 0
    /\ calls[c].err = "TenantContextError"
    /\ calls[d].scope = "running"
    /\ LruIndex(cache, calls[d].key) # 0
    /\ limits[calls[d].key].count > 0

\* this step issues fetchDBConfig for pair k; the new call is nCalls'
IssuesFetch(k) ==
  /\ nCalls' = nCalls + 1
  /\ calls'[nCalls'].op = "fetch"
  /\ calls'[nCalls'].key = k

\* a hit returns the cached descriptor and sends no query to the store; a
\* miss sends one
C28_HitOrMiss ==
  \A k \in ConfigKeys :
    IssuesFetch(k) =>
      LET cached == LruGetValue(configCache, k, now, CONFIG_CACHE_TTL_MS) IN
        IF cached # 0
          THEN /\ calls'[nCalls'].pc = "done"
               /\ calls'[nCalls'].ret = cached
               /\ ~calls'[nCalls'].queried
          ELSE /\ calls'[nCalls'].pc = "store"
               /\ calls'[nCalls'].queried

\* no matching row: the call returns null, not an error, and the cache is
\* as before
C28_NotFound ==
  \A c \in Calls :
    (calls[c].pc = "store" /\ calls'[c].pc = "done" /\ calls'[c].answer = "empty")
      => /\ calls'[c].ret = 0
         /\ calls'[c].err = ""
         /\ configCache' = configCache

C29_InvalidateFrame ==
  \A k \in ConfigKeys :
    (nCalls' = nCalls + 1 /\ calls'[nCalls'].op = "invalidate" /\ calls'[nCalls'].key = k)
      => /\ LruIndex(configCache', k) = 0
         /\ OtherEntries(configCache', k) = OtherEntries(configCache, k)

\* clearAll removes every descriptor
C29_ClearFrame ==
  (nCalls' = nCalls + 1 /\ calls'[nCalls'].op = "clearConfig") => configCache' = <<>>

\* call i invalidated pair k (or cleared the cache) and no resolve of k was
\* issued since
LastInvalidated(k) ==
  \E i \in 1..nCalls :
    /\ \/ calls[i].op = "invalidate" /\ calls[i].key = k
       \/ calls[i].op = "clearConfig"
    /\ \A j \in (i + 1)..nCalls : ~(calls[j].op = "fetch" /\ calls[j].key = k)

\* the first resolve of a pair after its invalidation queries the store
C29_NextQueries ==
  \A k \in ConfigKeys :
    (IssuesFetch(k) /\ LastInvalidated(k)) => calls'[nCalls'].queried

\* C29: after invalidate(appId, orgId) the next resolve(appId, orgId) queries
\* the store while descriptors cached for other pairs stay cached; after
\* clearAll() the next resolve of every pair queries the store.
C29_Invalidation ==
  [][C29_InvalidateFrame /\ C29_ClearFrame /\ C29_NextQueries]_vars

\* C30: getConnectionStats() has no side effects (cache contents and access
\* recency, pending table and rate-limiter state are unchanged) and returns
\* the current number of cached records, the current number of pending
\* slots and the configured capacity.
C30_StatsReadOnly ==
  [][(nCalls' = nCalls + 1 /\ calls'[nCalls'].op = "stats")
       => /\ calls'[nCalls'].stats[1] = Cardinality({k \in Keys : LruIndex(cache, k) # 0})
          /\ calls'[nCalls'].stats[2] = Cardinality({p \in Calls : InFlight(p)
                                                       /\ pending[est[p].key] = p})
          /\ calls'[nCalls'].stats[3] = maxSize
          /\ cache' = cache /\ pending' = pending /\ limits' = limits
          /\ est' = est /\ lastValidated' = lastValidated /\ closed' = closed
          /\ \A c \in Calls : c # nCalls' => calls'[c] = calls[c]]_vars

\* getConnectionStats was called with a record cached and an establishment
\* of another key pending
C30_Witness ==
  \E c \in Calls :
    /\ calls[c].op = "stats"
    /\ calls[c].stats[1] > 0
    /\ calls[c].stats[2] > 0

\* getConnection call c found handle h cached, probed it and the probe failed
WentStale(c, h) ==
  /\ calls[c].op = "get" /\ calls[c].held = h /\ h # 0
  /\ calls[c].pc \in {"closing", "join", "done"}
  /\ calls[c].pc # "closing" => calls[c].prom = c

\* two calls that went stale on the same handle share one replacement:
\* one establishment, one record for both
C31_OneReplacement ==
  \A c1, c2 \in Calls :
    (c1 # c2 /\ WentStale(c1, calls[c1].held)' /\ WentStale(c2, calls[c1].held)')
      => /\ ~(est'[c1].state # "none" /\ est'[c2].state # "none")
         /\ (calls'[c1].ret # 0 /\ calls'[c2].ret # 0) => calls'[c1].ret = calls'[c2].ret

\* resuming from the close of the stale handle removes no record but the
\* stale one
C31_DeletesOwn ==
  \A c \in Calls :
    (calls[c].pc = "closing" /\ calls'[c].pc # "closing" /\ LruIndex(cache, calls[c].key) # 0)
      => cache[LruIndex(cache, calls[c].key)].value = calls[c].held

\* C31: state is re-validated after every await in getConnection: two calls
\* whose probe of the same cached record fails close the stale handle once,
\* make one replacement connect(), receive the same new record, and neither
\* deletes a record the other stored.
C31_Revalidates == [][C31_OneReplacement /\ C31_DeletesOwn]_vars

\* C32: no handle is dropped unclosed: every handle a successful connect()
\* returned is the handle of the cache record of its key or has had close()
\* invoked on it.
C32_NoHandleDropped ==
  \A p \in Calls :
    est[p].state = "ok"
      => \/ p \in closed
         \/ /\ LruIndex(cache, est[p].key) # 0
            /\ cache[LruIndex(cache, est[p].key)].value = p

\* C33: two distinct valid identities never map to the same cache key, so a
\* getConnection for one identity never returns the record established for
\* another; this holds for every field value validation allows, hyphens
\* included.
C33_KeysDistinct ==
  \A c, d \in Calls :
    (calls[c].op = "get" /\ calls[d].op = "get" /\ calls[c].arg # calls[d].arg)
      => /\ calls[c].key # calls[d].key
         /\ calls[c].ret # 0 => calls[c].ret # calls[d].ret

\* the cache holds no record whose handle had close invoked on it
C34_CacheOpen ==
  \A i \in 1..Len(cache') : cache'[i].value \notin closed'

\* a getConnection call that returns a record returns one whose handle has
\* not had close invoked on it
C34_ReturnsOpen ==
  \A c \in Calls :
    (calls'[c].op = "get" /\ calls[c].pc # "done" /\ calls'[c].pc = "done"
       /\ calls'[c].ret # 0)
      => calls'[c].ret \notin closed'

\* C34: getConnection never returns, and the cache never holds, a record
\* whose handle already had close() invoked by the manager, under any
\* interleaving with calls suspended on a probe or on a close.
C34_NoClosedRecord == [][C34_CacheOpen /\ C34_ReturnsOpen]_vars

\* closeAllConnections was the last call issued, it has returned, and
\* every call and every establishment has settled
SettledAfterCloseAll ==
  /\ nCalls > 0
  /\ calls[nCalls].op = "closeAll"
  /\ \A c \in Calls : calls[c].pc \in {"idle", "done"}
  /\ \A p \in Calls : ~InFlight(p)

\* then the cache is empty
C35_Drained == SettledAfterCloseAll' => cache' = <<>>

\* an establishment that settles removes no pending slot but its own
C35_OwnSlot ==
  \A p \in Calls :
    (InFlight(p) /\ ~InFlight(p)')
      => pending'[est[p].key] = IF pending[est[p].key] = p THEN 0 ELSE pending[est[p].key]

\* C35: an establishment in flight when closeAllConnections() runs leaves no
\* record in the cache after closeAllConnections() returned, and its settling
\* removes no pending slot of a newer establishment of the key; once
\* everything has settled with no new getConnection call the cache is empty.
C35_CloseAllInFlight == [][C35_Drained /\ C35_OwnSlot]_vars

\* C36: between steps no key is both in the pending table and in the cache:
\* a slot is created only when the cache has no record of the key, and on
\* success the record is stored and the slot removed in one step.
C36_PendingOrCached ==
  \A k \in Keys : ~(pending[k] # 0 /\ LruIndex(cache, k) # 0)

\* the most _createConnection invocations one establishment can make
AttemptBound == IF maxAttempts < 1 THEN 1 ELSE maxAttempts

\* no call and no establishment is in progress
NothingInProgress ==
  /\ \A c \in Calls : calls[c].pc \in {"idle", "done"}
  /\ \A p \in Calls : ~InFlight(p)

\* C37: if every connector, probe, close and config-store call settles,
\* every getConnection call settles (record or error), the retry loop makes
\* a bounded number of attempts for every retry count, and once nothing is
\* in progress the pending table is empty.
C37_Settles ==
  /\ \A c \in Calls : (calls[c].op = "get") ~> (calls[c].pc = "done")
  /\ [](\A p \in Calls : est[p].attempt <= AttemptBound)
  /\ [](NothingInProgress => pending = PendingClear)

\* a call settled after its establishment backed off and tried again
C37_Witness ==
  \E c \in Calls :
    /\ calls[c].op = "get" /\ calls[c].pc = "done"
    /\ est[c].attempt >= 2
    /\ NothingInProgress

\* C38: a getConnection call rejected by the rate limiter settles at once
\* with the error, starts no config lookup, no probe and no connect(), and
\* leaves the cache, the pending table and the key's window unchanged.
C38_RejectedFrame ==
  [][\A k \in Keys :
       (IssuesGet(k) /\ calls'[nCalls'].err = "RateLimited")
         => /\ calls'[nCalls'].pc = "done" /\ calls'[nCalls'].ret = 0
            /\ \A c \in Calls \ {nCalls'} : calls'[c] = calls[c]
            /\ UNCHANGED <<cache, pending, limits, est, nConnect,
                           lastValidated, closed>>]_vars

\* a call was rejected while the key had a cached record
C38_Witness ==
  \E k \in Keys :
    /\ nCalls > 0
    /\ calls[nCalls].op = "get" /\ calls[nCalls].key = k
    /\ calls[nCalls].err = "RateLimited"
    /\ LruIndex(cache, k) # 0

\* the step enters the catch block of an executeQuery call
EntersCatch ==
  \E c \in Calls : calls[c].qphase # "catching" /\ calls'[c].qphase = "catching"

\* C39: one executeQuery call starts at most one connection acquisition: on
\* the error path no rate-limit count of the key is consumed and no further
\* establishment (config lookup, connect() cycle with retries) is started.
C39_ErrorPathQuiet ==
  /\ [][EntersCatch => UNCHANGED <<limits, est, pending>>]_vars
  /\ [](\A g \in Calls : calls[g].parent # 0 => est[g].state = "none")

\* the resolves of pair k that read a row from the store
RowFetches(k) ==
  {d \in Calls : calls[d].op = "fetch" /\ calls[d].key = k /\ calls[d].answer = "row"}

\* the resolve issued by the step is answered from the cache
ServedFromCache(k) ==
  /\ IssuesFetch(k)
  /\ ~calls'[nCalls'].queried
  /\ calls'[nCalls'].ret # 0

\* C40: a descriptor served from the configuration cache was read from the
\* store no longer ago than the configuration-cache TTL, however often it
\* was read in between.
C40_FreshWithinTTL ==
  [][\A k \in ConfigKeys :
       ServedFromCache(k)
         => \E d \in RowFetches(k) :
              /\ calls[d].ret = calls'[nCalls'].ret
              /\ now - calls[d].storedAt <= CONFIG_CACHE_TTL_MS]_vars
====
